---- MODULE Spec2Model ----
(***************************************************************************)
(* A model of src/src/main.rs: a RESP key-value server.  One tokio task    *)
(* per accepted connection decodes a command, runs handle_command against  *)
(* the shared Arc<RwLock<State>> and writes the reply to its own stream.   *)
(*                                                                         *)
(* Bytes are the integers 0..255, a Vec<u8> is a sequence of bytes, an     *)
(* Option<T> is the empty sequence (None) or a one-element sequence        *)
(* (Some(x)).  The clock (tokio::time::Instant::now()) is counted in       *)
(* milliseconds, the unit of Duration::from_millis.                        *)
(***************************************************************************)
EXTENDS Integers, Sequences, FiniteSets, TLC

(***************************************************************************)
(* Bounds of the model.                                                    *)
(***************************************************************************)
MaxClock == 2
MaxCmds == 2
MaxTtl == 1
MaxExtra == 1

None == << >>
Some(x) == << x >>

(***************************************************************************)
(* Byte strings that occur in the source as literals.                      *)
(***************************************************************************)
CRLF == << 13, 10 >>
s_ping == << 112, 105, 110, 103 >>
s_echo == << 101, 99, 104, 111 >>
s_get == << 103, 101, 116 >>
s_set == << 115, 101, 116 >>
s_config == << 99, 111, 110, 102, 105, 103 >>
s_px == << 112, 120 >>
s_dir == << 100, 105, 114 >>
s_dbfilename == << 100, 98, 102, 105, 108, 101, 110, 97, 109, 101 >>
s_dump_rdb == << 100, 117, 109, 112, 46, 114, 100, 98 >>
Pong == << 43, 80, 79, 78, 71, 13, 10 >>
Ok == << 43, 79, 75, 13, 10 >>
NullBulk == << 36, 45, 49, 13, 10 >>

(***************************************************************************)
(* enum DataType                                                           *)
(***************************************************************************)
SimpleString(s) == [t |-> "SimpleString", v |-> s]
SimpleError(s) == [t |-> "SimpleError", v |-> s]
Integer(n) == [t |-> "Integer", v |-> n]
BulkString(b) == [t |-> "BulkString", v |-> b]
Array(a) == [t |-> "Array", v |-> a]

(***************************************************************************)
(* enum Command.  Panic is not a variant: it is the outcome of             *)
(* Command::from when an unwrap() fails or todo!() is reached, which       *)
(* unwinds the connection's task.                                          *)
(***************************************************************************)
INVALID(m) == [op |-> "INVALID", msg |-> m]
PING == [op |-> "PING"]
ECHO(m) == [op |-> "ECHO", msg |-> m]
GET(k) == [op |-> "GET", key |-> k]
SET(k, v) == [op |-> "SET", key |-> k, value |-> v]
SETPX(k, v, e) == [op |-> "SETPX", key |-> k, value |-> v, expiry |-> e]
CONFIGGET(k) == [op |-> "CONFIGGET", key |-> k]
Panic == [op |-> "PANIC"]
NoCommand == [op |-> "NONE"]

MsgArray == "Invalid data type for command. must be an array"
MsgNonEmpty == "Invalid data type for command. must be a non-empty array"
MsgBulk == "Invalid data type for command. must be a bulk string"
MsgLen2 == "Invalid data type for command. must be an array of length 2"
MsgLen3 == "Invalid data type for command. must be an array of length 3"
MsgLen3or5 == "Invalid data type for command. must be an array of length 3 or 5"
MsgPxOnly == "Invalid argument for command. PX is only accepted argument name"
MsgPxBulk == "Invalid data type for command. PX argument must be a bulk string"
MsgGetOnly == "Invalid argument for command. GET is only accepted argument name"
MsgGetBulk == "Invalid data type for command. GET argument must be a bulk string"

(***************************************************************************)
(* String::from_utf8_lossy on ASCII input, and str::to_lowercase.  A byte  *)
(* that is not ASCII becomes U+FFFD; the inputs of the model are ASCII.    *)
(***************************************************************************)
FromUtf8Lossy(b) == [i \in DOMAIN b |-> IF b[i] < 128 THEN b[i] ELSE 65533]
ToLowercase(s) == [i \in DOMAIN s |-> IF s[i] >= 65 /\ s[i] <= 90 THEN s[i] + 32 ELSE s[i]]

(***************************************************************************)
(* str::parse::<u64>: an optional '+', then one or more decimal digits.    *)
(* The result is an Option.                                                *)
(***************************************************************************)
IsDigit(b) == b >= 48 /\ b <= 57

RECURSIVE DigitsValue(_)
DigitsValue(s) ==
    IF Len(s) = 0 THEN 0
    ELSE DigitsValue(SubSeq(s, 1, Len(s) - 1)) * 10 + (s[Len(s)] - 48)

ParseU64(s) ==
    LET digits == IF Len(s) > 0 /\ s[1] = 43 THEN Tail(s) ELSE s
    IN  IF Len(digits) > 0 /\ \A i \in DOMAIN digits : IsDigit(digits[i])
        THEN Some(DigitsValue(digits))
        ELSE None

(* The errors that handle_connection can return. *)
ErrDisconnected == "Client disconnected"
ErrPrefix == "Command protocol error: unknown data type prefix"
ErrParse == "ParseIntError"
ErrEof == "UnexpectedEof"
ErrUtf8 == "InvalidData"
ErrIo == "io::Error"

(***************************************************************************)
(* DataType::deserialize_data on the bytes `s` that the client sends       *)
(* before it closes the connection.  read_line takes the bytes up to and   *)
(* including the first LF, or all that is left when there is none, and     *)
(* fails on bytes that are not UTF-8 (0xFF is the one such byte among the  *)
(* inputs); str::trim strips white space at both ends; read_exact fails    *)
(* when the stream ends first.  The result is Decoded(data, rest) or       *)
(* Failed(error).                                                          *)
(***************************************************************************)
Decoded(data, rest) == [ok |-> TRUE, data |-> data, rest |-> rest]
Failed(err) == [ok |-> FALSE, err |-> err]

IsSpace(b) == b \in {9, 10, 11, 12, 13, 32}

LineEnd(s) ==
    LET lfs == {i \in DOMAIN s : s[i] = 10}
    IN  IF lfs = {} THEN Len(s)
        ELSE CHOOSE i \in lfs : \A j \in lfs : i <= j

Trim(l) ==
    LET keep == {i \in DOMAIN l : ~IsSpace(l[i])}
    IN  IF keep = {} THEN << >>
        ELSE SubSeq(l, CHOOSE i \in keep : \A j \in keep : i <= j,
                       CHOOSE i \in keep : \A j \in keep : i >= j)

(* A variant of the '$' arm that reads the payload without the two bytes   *)
(* that follow it.                                                         *)
BulkSpanShort(len) == len

BulkSpan(len) == len + 2

(* read_exact fails when the stream ends before `need` bytes; a variant    *)
(* that gives up only when more than two are missing.                      *)
ShortReadLax(avail, need) == avail + 2 < need

ShortRead(avail, need) == avail < need

RECURSIVE Deserialize(_)
RECURSIVE DeserializeN(_, _, _)
Deserialize(s) ==
    LET n == LineEnd(s)
        line == SubSeq(s, 1, n)
        rest == SubSeq(s, n + 1, Len(s))
        buffer == Trim(line)
    IN  IF \E i \in DOMAIN line : line[i] >= 128 THEN Failed(ErrUtf8)
        ELSE IF Len(buffer) = 0 THEN Failed(ErrDisconnected)
        ELSE LET body == Tail(buffer)
                 num == ParseU64(body)
             IN  IF buffer[1] = 43 THEN Decoded(SimpleString(body), rest)
                 ELSE IF buffer[1] = 45 THEN Decoded(SimpleError(body), rest)
                 ELSE IF buffer[1] = 58 THEN
                     IF num = None THEN Failed(ErrParse)
                     ELSE Decoded(Integer(num[1]), rest)
                 ELSE IF buffer[1] = 36 THEN
                     IF num = None THEN Failed(ErrParse)
                     ELSE IF ShortRead(Len(rest), BulkSpan(num[1])) THEN Failed(ErrEof)
                     ELSE Decoded(BulkString(SubSeq(rest, 1, num[1])),
                                  SubSeq(rest, BulkSpan(num[1]) + 1, Len(rest)))
                 ELSE IF buffer[1] = 42 THEN
                     IF num = None THEN Failed(ErrParse)
                     ELSE DeserializeN(rest, num[1], << >>)
                 ELSE Failed(ErrPrefix)

(* The loop of the '*' arm: `n` more elements after those in `acc`. *)
DeserializeN(s, n, acc) ==
    IF n = 0 THEN Decoded(Array(acc), s)
    ELSE LET r == Deserialize(s) IN
         IF ~r.ok THEN r ELSE DeserializeN(r.rest, n - 1, Append(acc, r.data))

(***************************************************************************)
(* The arity tests of Command::from.  "ping" has none.                     *)
(***************************************************************************)
EchoArityOk(n) == n = 2
GetArityOk(n) == n = 2
SetArityOk(n) == n = 3 \/ n = 5
ConfigArityOk(n) == n = 3

ParseSet(args) ==
    IF ~SetArityOk(Len(args)) THEN INVALID(MsgLen3or5)
    ELSE IF args[2].t # "BulkString" THEN INVALID(MsgBulk)
    ELSE IF args[3].t # "BulkString" THEN INVALID(MsgBulk)
    ELSE IF Len(args) = 3 THEN SET(args[2].v, args[3].v)
    ELSE IF Len(args) = 5 THEN
        IF args[4].t # "BulkString" THEN INVALID(MsgBulk)
        ELSE IF args[4].v # s_px THEN INVALID(MsgPxOnly)
        ELSE IF args[5].t # "BulkString" THEN INVALID(MsgPxBulk)
        ELSE LET expiry == ParseU64(FromUtf8Lossy(args[5].v))
             IN  IF expiry = None THEN Panic
                 ELSE SETPX(args[2].v, args[3].v, expiry[1])
    ELSE Panic

ParseConfig(args) ==
    IF ~ConfigArityOk(Len(args)) THEN INVALID(MsgLen3)
    ELSE IF args[2].t # "BulkString" THEN INVALID(MsgBulk)
    ELSE IF args[2].v # s_get THEN INVALID(MsgGetOnly)
    ELSE IF args[3].t # "BulkString" THEN INVALID(MsgGetBulk)
    ELSE CONFIGGET(args[3].v)

(***************************************************************************)
(* impl From<DataType> for Command                                         *)
(***************************************************************************)
CommandFrom(data) ==
    IF data.t # "Array" THEN INVALID(MsgArray)
    ELSE LET args == data.v IN
         IF Len(args) = 0 THEN INVALID(MsgNonEmpty)
         ELSE IF args[1].t # "BulkString" THEN INVALID(MsgBulk)
         ELSE LET name == ToLowercase(FromUtf8Lossy(args[1].v)) IN
              IF name = s_ping THEN PING
              ELSE IF name = s_echo THEN
                  IF ~EchoArityOk(Len(args)) THEN INVALID(MsgLen2)
                  ELSE IF args[2].t # "BulkString" THEN INVALID(MsgBulk)
                  ELSE ECHO(args[2].v)
              ELSE IF name = s_get THEN
                  IF ~GetArityOk(Len(args)) THEN INVALID(MsgLen2)
                  ELSE IF args[2].t # "BulkString" THEN INVALID(MsgBulk)
                  ELSE GET(args[2].v)
              ELSE IF name = s_set THEN ParseSet(args)
              ELSE IF name = s_config THEN ParseConfig(args)
              ELSE Panic

(***************************************************************************)
(* Reply encoding, as handle_command writes it: each element of a reply    *)
(* is the argument of one stream.write_all call.                           *)
(***************************************************************************)
RECURSIVE Dec(_)
Dec(n) == IF n < 10 THEN << 48 + n >> ELSE Dec(n \div 10) \o << 48 + (n % 10) >>

BulkHeader(len) == << 36 >> \o Dec(len) \o CRLF
(* A variant that writes no CRLF after the payload.                        *)
BulkChunksBare(b) == << BulkHeader(Len(b)), b >>

BulkChunks(b) == << BulkHeader(Len(b)), b, CRLF >>

MsgCode(m) ==
    CASE m = MsgArray -> 1001
      [] m = MsgNonEmpty -> 1002
      [] m = MsgBulk -> 1003
      [] m = MsgLen2 -> 1004
      [] m = MsgLen3 -> 1005
      [] m = MsgLen3or5 -> 1006
      [] m = MsgPxOnly -> 1007
      [] m = MsgPxBulk -> 1008
      [] m = MsgGetOnly -> 1009
      [] m = MsgGetBulk -> 1010

ErrorChunks(m) == << << 45 >> \o << MsgCode(m) >> \o CRLF >>

ConfigChunks(name, value) ==
    << << 42, 50, 13, 10 >>, BulkHeader(Len(name)) \o name \o CRLF,
       BulkHeader(Len(value)), value, CRLF >>

RECURSIVE Flatten(_)
Flatten(chunks) ==
    IF Len(chunks) = 0 THEN << >> ELSE Head(chunks) \o Flatten(Tail(chunks))

(***************************************************************************)
(* The datastore: HashMap<Vec<u8>, DataStoreValue>, a function from the    *)
(* keys present to [value, expiry].                                        *)
(***************************************************************************)
EmptyStore == [k \in {} |-> None]
Lookup(ds, key) == IF key \in DOMAIN ds THEN Some(ds[key]) ELSE None
(* Variants of the store operations that differ from HashMap's: an insert  *)
(* that keeps the expiry of the entry it replaces, an insert that writes   *)
(* every entry, a remove that leaves an empty value behind.                *)
InsertKeepExpiry(ds, key, dsv) ==
    [k \in DOMAIN ds \cup {key} |->
        IF k # key THEN ds[k]
        ELSE IF key \in DOMAIN ds /\ dsv.expiry = None
             THEN [value |-> dsv.value, expiry |-> ds[key].expiry]
             ELSE dsv]
InsertAll(ds, key, dsv) == [k \in DOMAIN ds \cup {key} |-> dsv]
RemoveTombstone(ds, key) ==
    [k \in DOMAIN ds |-> IF k = key THEN [value |-> << >>, expiry |-> None] ELSE ds[k]]

Insert(ds, key, dsv) == [k \in DOMAIN ds \cup {key} |-> IF k = key THEN dsv ELSE ds[k]]
Remove(ds, key) == [k \in DOMAIN ds \ {key} |-> ds[k]]

SetValue(value) == [value |-> value, expiry |-> None]
SetPxValue(value, now, ttl) == [value |-> value, expiry |-> Some(now + ttl)]

(* Variants of the expiry test: one tick of grace, and no strictness.      *)
ExpiredLate(expiry, now) == expiry + 1 < now
ExpiredEq(expiry, now) == expiry <= now

Expired(expiry, now) == expiry < now

(* A variant of GET that treats every entry it finds as expired.           *)
GetOutcomeEager(found, now) == IF found = None THEN "absent" ELSE "expired"

GetOutcome(found, now) ==
    IF found = None THEN "absent"
    ELSE IF found[1].expiry # None /\ Expired(found[1].expiry[1], now) THEN "expired"
    ELSE "live"

GetChunks(found, now) ==
    IF GetOutcome(found, now) = "live" THEN BulkChunks(found[1].value)
    ELSE << NullBulk >>

(***************************************************************************)
(* What a command does to the datastore and answers when it runs in one    *)
(* step under one exclusive acquisition of the lock.                       *)
(***************************************************************************)
AtomicApply(ds, command, now) ==
    IF command.op = "GET" THEN
        LET found == Lookup(ds, command.key) IN
        [st |-> IF GetOutcome(found, now) = "expired"
                THEN Remove(ds, command.key) ELSE ds,
         r |-> Flatten(GetChunks(found, now))]
    ELSE IF command.op = "SET" THEN
        [st |-> Insert(ds, command.key, SetValue(command.value)), r |-> Ok]
    ELSE
        [st |-> Insert(ds, command.key,
                       SetPxValue(command.value, now, command.expiry)),
         r |-> Ok]

(***************************************************************************)
(* What the clients send.  A request is the DataType that deserialize_data *)
(* returns for it.                                                         *)
(***************************************************************************)
Conns == {1, 2}
SeqConns == {1}

s_GET == << 71, 69, 84 >>
s_PING == << 80, 73, 78, 71 >>
s_Config == << 67, 111, 110, 102, 105, 103 >>
s_foo == << 102, 111, 111 >>
SharedKey == << 107 >>
OwnKey(c) == << 96 + c >>
Vals == {<< 118 >>, << 119 >>}
Ttls == 0 .. MaxTtl

ReqGet(k) == Array(<< BulkString(s_GET), BulkString(k) >>)
ReqSet(k, v) == Array(<< BulkString(s_set), BulkString(k), BulkString(v) >>)
ReqSetPx(k, v, t) ==
    Array(<< BulkString(s_set), BulkString(k), BulkString(v), BulkString(s_px),
             BulkString(Dec(t)) >>)

(* GET, SET and SET PX on one key that every connection uses. *)
AtomicInputs ==
    {ReqGet(SharedKey), ReqSet(SharedKey, << 118 >>), ReqSetPx(SharedKey, << 119 >>, 0)}

StoreInputs ==
    {ReqGet(SharedKey)}
        \cup {ReqSet(SharedKey, v) : v \in Vals}
        \cup {ReqSetPx(SharedKey, v, t) : v \in Vals, t \in Ttls}

(* GET and SET on a key that only connection c uses. *)
DisjointInputs(c) == {ReqGet(OwnKey(c))} \cup {ReqSet(OwnKey(c), v) : v \in Vals}

(* Every well-formed request and one unknown command, each also cut      *)
(* short, extended by up to MaxExtra elements, and with one element        *)
(* replaced; and values that are no non-empty arrays.                     *)
ArgElems ==
    {BulkString(SharedKey), BulkString(s_px), BulkString(s_get),
     BulkString(Dec(0)), Integer(1)}
Templates ==
    {<< BulkString(s_PING) >>,
     << BulkString(s_echo), BulkString(SharedKey) >>,
     << BulkString(s_GET), BulkString(SharedKey) >>,
     << BulkString(s_set), BulkString(SharedKey), BulkString(SharedKey) >>,
     << BulkString(s_set), BulkString(SharedKey), BulkString(SharedKey),
        BulkString(s_px), BulkString(Dec(0)) >>,
     << BulkString(s_Config), BulkString(s_get), BulkString(SharedKey) >>,
     << BulkString(s_Config), BulkString(s_get), BulkString(s_dir) >>,
     << BulkString(s_foo) >>}
Extras == UNION {[1 .. n -> ArgElems] : n \in 0 .. MaxExtra}
Variations(t) ==
    {SubSeq(t, 1, n) : n \in 1 .. Len(t)}
        \cup {t \o x : x \in Extras}
        \cup {[t EXCEPT ![i] = e] : i \in 1 .. Len(t), e \in ArgElems}
ParseInputs ==
    {Array(a) : a \in UNION {Variations(t) : t \in Templates}}
        \cup {Array(<< >>), BulkString(s_ping), SimpleString(s_ping)}
(***************************************************************************)
(* What a client writes on its socket: commands in their wire form, sent   *)
(* back to back, then `tail`, then the close of the connection.            *)
(***************************************************************************)
RECURSIVE Encode(_)
RECURSIVE EncodeAll(_)
Encode(d) ==
    IF d.t = "BulkString" THEN << 36 >> \o Dec(Len(d.v)) \o CRLF \o d.v \o CRLF
    ELSE IF d.t = "Array" THEN << 42 >> \o Dec(Len(d.v)) \o CRLF \o EncodeAll(d.v)
    ELSE IF d.t = "Integer" THEN << 58 >> \o Dec(d.v) \o CRLF
    ELSE IF d.t = "SimpleString" THEN << 43 >> \o d.v \o CRLF
    ELSE << 45 >> \o d.v \o CRLF

EncodeAll(ds) == IF Len(ds) = 0 THEN << >> ELSE Encode(Head(ds)) \o EncodeAll(Tail(ds))

Payloads == {<< >>, << 13, 10 >>, << 255, 10 >>}
ReqEcho(p) == Array(<< BulkString(s_echo), BulkString(p) >>)
ReqPing == Array(<< BulkString(s_PING) >>)
ReqNested ==
    Array(<< Array(<< BulkString(SharedKey), Array(<< >>) >>), BulkString(SharedKey) >>)

WireCmds ==
    {ReqPing, ReqGet(SharedKey), ReqSet(SharedKey, << 10, 13 >>), ReqNested}
        \cup {ReqEcho(p) : p \in Payloads}

(* A command cut short at every point, and lines that are no command. *)
Prefixes(b) == {SubSeq(b, 1, n) : n \in 0 .. Len(b) - 1}
Junk ==
    {CRLF, << 63 >> \o CRLF, << 42, 120 >> \o CRLF, << 36, 45, 49 >> \o CRLF,
     << 43, 255 >> \o CRLF, << 32, 58, 49 >>}
Tails == Prefixes(Encode(ReqSet(SharedKey, << 119 >>))) \cup Junk

Scripts ==
    {[cmds |-> cs, tail |-> t] :
        cs \in UNION {[1 .. n -> WireCmds] : n \in 0 .. MaxCmds}, t \in Tails}
Sent(sc) == EncodeAll(sc.cmds) \o sc.tail

(* Clients whose connection fails: after at most one SET they send an      *)
(* unknown command, a CONFIG GET or a line with an unknown prefix; and     *)
(* clients that send SET and GET only.                                     *)
ReqFoo == Array(<< BulkString(s_foo) >>)
ReqConfigDir == Array(<< BulkString(s_config), BulkString(s_get), BulkString(s_dir) >>)
GoodCmds == {ReqSet(SharedKey, << 118 >>), ReqGet(SharedKey)}
FailScripts ==
    {[cmds |-> cs, tail |-> << >>] :
        cs \in UNION {[1 .. n -> GoodCmds] : n \in 0 .. MaxCmds}}
        \cup {[cmds |-> cs \o << x >>, tail |-> << >>] :
                cs \in {<< >>, << ReqSet(SharedKey, << 119 >>) >>},
                x \in {ReqFoo, ReqConfigDir}}
        \cup {[cmds |-> cs, tail |-> << 63 >> \o CRLF] :
                cs \in {<< >>, << ReqSet(SharedKey, << 119 >>) >>}}

(* CONFIG GET of dir, of dbfilename and of another name. *)
ConfigInputs ==
    {Array(<< BulkString(s_config), BulkString(s_get), BulkString(k) >>) :
        k \in {s_dir, s_dbfilename, SharedKey}}
        \cup {Array(<< BulkString(s_Config), BulkString(s_get), BulkString(s_dbfilename) >>),
              Array(<< BulkString(s_PING) >>)}
Keys ==
    {SharedKey} \cup {OwnKey(c) : c \in Conns} \cup Payloads
        \cup {e.v : e \in {x \in ArgElems : x.t = "BulkString"}}

(***************************************************************************)
(* main: the command line.  "--dir" and "--dbfilename" take the next       *)
(* argument (None when there is none), a later occurrence replaces an      *)
(* earlier one, any other argument makes main return before it listens.    *)
(***************************************************************************)
s_opt_dir == << 45, 45, 100, 105, 114 >>
s_opt_dbfilename == << 45, 45, 100, 98, 102, 105, 108, 101, 110, 97, 109, 101 >>
NoArgs == [dir |-> None, file |-> None, run |-> TRUE]

RECURSIVE ArgLoop(_, _)
ArgLoop(args, acc) ==
    IF Len(args) = 0 THEN acc
    ELSE LET value == IF Len(args) > 1 THEN Some(args[2]) ELSE None
             rest == SubSeq(args, 3, Len(args))
         IN  IF Head(args) = s_opt_dir
             THEN ArgLoop(rest, [acc EXCEPT !.dir = value])
             ELSE IF Head(args) = s_opt_dbfilename
             THEN ArgLoop(rest, [acc EXCEPT !.file = value])
             ELSE [acc EXCEPT !.run = FALSE]

ParseArgs(args) == ArgLoop(args, NoArgs)

(***************************************************************************)
(* PathBuf, as the bytes of the path.  push appends a component after a    *)
(* separator, or replaces the path when the component is absolute;         *)
(* file_name is the last component unless the path ends in the root or in  *)
(* ".."; parent is the path without its last component.  The paths of the  *)
(* model have no "." component and no repeated separator.                  *)
(***************************************************************************)
Sep == 47
DotDot == << 46, 46 >>

RECURSIVE TrimSep(_)
TrimSep(p) ==
    IF Len(p) > 1 /\ p[Len(p)] = Sep THEN TrimSep(SubSeq(p, 1, Len(p) - 1)) ELSE p

RECURSIVE LastSep(_)
LastSep(p) ==
    IF Len(p) = 0 THEN 0
    ELSE IF p[Len(p)] = Sep THEN Len(p)
    ELSE LastSep(SubSeq(p, 1, Len(p) - 1))

Push(p, f) ==
    IF Len(f) > 0 /\ f[1] = Sep THEN f
    ELSE IF Len(p) = 0 \/ p[Len(p)] = Sep THEN p \o f
    ELSE p \o << Sep >> \o f

FileName(p) ==
    LET q == TrimSep(p)
        name == SubSeq(q, LastSep(q) + 1, Len(q))
    IN  IF Len(name) = 0 \/ name = DotDot THEN None ELSE Some(name)

Parent(p) ==
    LET q == TrimSep(p)
        i == LastSep(q)
    IN  IF Len(q) = 0 \/ q = << Sep >> THEN None
        ELSE IF i = 0 THEN Some(<< >>)
        ELSE IF i = 1 THEN Some(<< Sep >>)
        ELSE Some(TrimSep(SubSeq(q, 1, i - 1)))

(* main: the State that is built from the command line. *)
StartPath(args) ==
    LET a == ParseArgs(args) IN
    IF a.dir = None THEN None
    ELSE Some(Push(a.dir[1], IF a.file = None THEN s_dump_rdb ELSE a.file[1]))

s_d == << 47, 100 >>
s_f == << 102 >>
BaseStartups == {<< >>, << s_opt_dir, s_d >>}
Startups ==
    BaseStartups \cup
    {<< s_opt_dbfilename, s_f >>,
     << s_opt_dir, s_d, s_opt_dbfilename, s_f >>,
     << s_opt_dbfilename, s_f, s_opt_dir, s_d >>,
     << s_opt_dir, s_d, s_opt_dbfilename >>,
     << s_opt_dbfilename, s_f, s_opt_dir >>,
     << s_opt_dir, << >>, s_opt_dbfilename, s_f >>,
     << s_opt_dir, s_d, s_foo >>}

(***************************************************************************)
(* State.                                                                  *)
(*   datastore, rdb_path   struct State                                    *)
(*   writer, readers       the guards of the RwLock that are held          *)
(*   clock                 Instant::now()                                  *)
(*   pc, cmd, wq, out      each connection task: where it is, the command  *)
(*                         it runs, the write_all calls it has still to    *)
(*                         make, the bytes of the reply it has written     *)
(* History, read by the properties only:                                   *)
(*   nrecv, nrep           commands decoded, replies completed             *)
(*   din                   the DataType of the command being parsed        *)
(*   obs                   what the running GET saw when it read the store *)
(*   prev                  the SET PX 0 a connection has just completed    *)
(*   lastw, lastgot, sole  per key: the last change, the last value read,  *)
(*                         the only connection that uses the key           *)
(*   lin                   the outcomes that executions with one atomic    *)
(*                         step per command can have produced so far       *)
(* The process and the sockets:                                            *)
(*   argv                  std::env::args().skip(1)                        *)
(*   wire                  each connection: the bytes the client has sent  *)
(*                         before closing that the reader has not consumed *)
(*   script                history: what the client encoded into wire      *)
(*   log                   each connection: the error that the spawned     *)
(*                         task printed with "an error occurred"           *)
(***************************************************************************)
VARIABLES datastore, rdb_path, writer, readers, clock, pc, cmd, wq, out,
          nrecv, nrep, din, obs, prev, lastw, lastgot, sole, lin,
          argv, wire, script, log

vars == << datastore, rdb_path, writer, readers, clock, pc, cmd, wq, out,
           nrecv, nrep, din, obs, prev, lastw, lastgot, sole, lin,
           argv, wire, script, log >>

NoWrite == [set |-> None, oldexp |-> None]
Nobody == [who |-> 0, value |-> None]
Shared == [who |-> -1, value |-> None]

Idle == [s |-> "idle", r |-> << >>]
Todo == [s |-> "todo", r |-> << >>]
Done(r) == [s |-> "done", r |-> r]

RdbPaths == {StartPath(a) : a \in BaseStartups}

NoScript == [cmds |-> << >>, tail |-> << >>]

InitWith(startups) ==
    /\ argv \in {a \in startups : ParseArgs(a).run}
    /\ rdb_path = StartPath(argv)
    /\ wire = [c \in Conns |-> << >>]
    /\ script = [c \in Conns |-> NoScript]
    /\ log = [c \in Conns |-> None]
    /\ datastore = EmptyStore
    /\ writer = 0
    /\ readers = {}
    /\ clock = 0
    /\ pc = [c \in Conns |-> "unaccepted"]
    /\ cmd = [c \in Conns |-> NoCommand]
    /\ wq = [c \in Conns |-> << >>]
    /\ out = [c \in Conns |-> << >>]
    /\ nrecv = [c \in Conns |-> 0]
    /\ nrep = [c \in Conns |-> 0]
    /\ din = [c \in Conns |-> None]
    /\ obs = [c \in Conns |-> None]
    /\ prev = [c \in Conns |-> None]
    /\ lastw = [k \in Keys |-> NoWrite]
    /\ lastgot = [k \in Keys |-> None]
    /\ sole = [k \in Keys |-> Nobody]
    /\ lin = {[st |-> EmptyStore, pend |-> [c \in Conns |-> Idle]]}

Init == InitWith(BaseStartups)

(***************************************************************************)
(* History bookkeeping.                                                    *)
(***************************************************************************)
IsStoreCmd(command) == command.op \in {"GET", "SET", "SETPX"}

(* A store access on `key` by connection c, seen from the other            *)
(* connections' just-completed SET PX 0.                                   *)
Touched(c, key) ==
    [c2 \in Conns |->
        IF c2 # c /\ prev[c2] # None /\ prev[c2][1].key = key
        THEN Some([prev[c2][1] EXCEPT !.clean = FALSE])
        ELSE prev[c2]]

(* The key of a command that connection c issues: c is the key's only user *)
(* as long as nobody else names it and no SET PX is issued on it.          *)
Used(c, command) ==
    IF ~IsStoreCmd(command) THEN sole
    ELSE [sole EXCEPT ![command.key] =
            IF command.op # "SETPX" /\ @.who \in {0, c}
            THEN [@ EXCEPT !.who = c] ELSE Shared]

InPast(expiry, now) == expiry # None /\ expiry[1] < now

(* The outcomes of the atomic executions, after every pending command has  *)
(* been given the chance to run at the time `now`.                         *)
LinStep(S, cm, now) ==
    S \cup {[st |-> AtomicApply(x[1].st, cm[x[2]], now).st,
             pend |-> [x[1].pend EXCEPT
                         ![x[2]] = Done(AtomicApply(x[1].st, cm[x[2]], now).r)]] :
            x \in {y \in S \X Conns : y[1].pend[y[2]].s = "todo"}}

RECURSIVE LinClosure(_, _, _, _)
LinClosure(S, cm, now, n) ==
    IF n = 0 THEN S ELSE LinClosure(LinStep(S, cm, now), cm, now, n - 1)

LinInvoke(c, command) ==
    IF IsStoreCmd(command)
    THEN LinClosure({[x EXCEPT !.pend[c] = Todo] : x \in lin},
                    [cmd EXCEPT ![c] = command], clock, Cardinality(Conns))
    ELSE lin

LinRespond(c, r) ==
    IF IsStoreCmd(cmd[c])
    THEN {[x EXCEPT !.pend[c] = Idle] : x \in {y \in lin : y.pend[c] = Done(r)}}
    ELSE lin

LinAbandon(c) == {[x EXCEPT !.pend[c] = Idle] : x \in lin}

(* A variant in which a returning handler keeps its guard.                 *)
KeepGuards(c) == UNCHANGED << writer, readers >>

Release(c) ==
    /\ writer' = IF writer = c THEN 0 ELSE writer
    /\ readers' = readers \ {c}

(***************************************************************************)
(* main: listener.accept() and tokio::spawn of handle_connection.          *)
(***************************************************************************)
Accept(c) ==
    /\ pc[c] = "unaccepted"
    /\ \A c2 \in Conns : c2 < c => pc[c2] # "unaccepted"
    /\ pc' = [pc EXCEPT ![c] = "read"]
    /\ UNCHANGED << datastore, rdb_path, writer, readers, clock, cmd, wq, out,
                    nrecv, nrep, din, obs, prev, lastw, lastgot, sole, lin >>
    /\ UNCHANGED << argv, wire, script, log >>

(***************************************************************************)
(* handle_connection: get_next_command is awaited only at the head of the  *)
(* loop, after handle_command has returned.  A panic in Command::from      *)
(* ends the task.                                                          *)
(***************************************************************************)
(* A variant that decodes the next command while a reply is being written. *)
CanRecvPipelined(p) == p \in {"read", "write"}

CanRecv(p) == p = "read"

Dispatch(c, d, track) ==
    /\ CanRecv(pc[c])
    /\ nrecv[c] < MaxCmds
    /\ LET command == CommandFrom(d) IN
        /\ cmd' = [cmd EXCEPT ![c] = command]
        /\ pc' = [pc EXCEPT ![c] = IF command = Panic THEN "dead" ELSE "exec"]
        /\ prev' = [prev EXCEPT ![c] =
                      IF command.op = "GET" /\ @ # None /\ @[1].key = command.key
                      THEN @ ELSE None]
        /\ sole' = Used(c, command)
        /\ lin' = IF track THEN LinInvoke(c, command) ELSE lin
    /\ din' = [din EXCEPT ![c] = Some(d)]
    /\ nrecv' = [nrecv EXCEPT ![c] = @ + 1]
    /\ UNCHANGED << datastore, rdb_path, writer, readers, clock, wq, out, nrep,
                    obs, lastw, lastgot >>

(* A request that the decoder has returned. *)
Recv(c, d, track) ==
    /\ Dispatch(c, d, track)
    /\ UNCHANGED << argv, wire, script, log >>

(***************************************************************************)
(* The same from the bytes on the socket.  accept() returns a connection   *)
(* on which the client sends Sent(sc).  get_next_command decodes the next  *)
(* command from what is unread; when deserialize_data fails the error goes *)
(* up through handle_connection to the spawned task, which prints it.      *)
(***************************************************************************)
AcceptWire(c, scripts) ==
    /\ pc[c] = "unaccepted"
    /\ \A c2 \in Conns : c2 < c => pc[c2] # "unaccepted"
    /\ pc' = [pc EXCEPT ![c] = "read"]
    /\ \E sc \in scripts :
          /\ wire' = [wire EXCEPT ![c] = Sent(sc)]
          /\ script' = [script EXCEPT ![c] = sc]
    /\ UNCHANGED << datastore, rdb_path, writer, readers, clock, cmd, wq, out,
                    nrecv, nrep, din, obs, prev, lastw, lastgot, sole, lin,
                    argv, log >>

RecvWire(c) ==
    LET r == Deserialize(wire[c]) IN
    IF r.ok
    THEN /\ Dispatch(c, r.data, FALSE)
         /\ wire' = [wire EXCEPT ![c] = r.rest]
         /\ UNCHANGED << argv, script, log >>
    ELSE /\ CanRecv(pc[c])
         /\ pc' = [pc EXCEPT ![c] = "dead"]
         /\ log' = [log EXCEPT ![c] = Some(r.err)]
         /\ UNCHANGED << datastore, rdb_path, writer, readers, clock, cmd, wq,
                         out, nrecv, nrep, din, obs, prev, lastw, lastgot, sole,
                         lin, argv, wire, script >>

(***************************************************************************)
(* handle_command, up to its first write_all.                              *)
(***************************************************************************)
ExecPing(c) ==
    /\ pc[c] = "exec" /\ cmd[c].op = "PING"
    /\ wq' = [wq EXCEPT ![c] = << Pong >>]
    /\ pc' = [pc EXCEPT ![c] = "write"]
    /\ din' = [din EXCEPT ![c] = None]
    /\ UNCHANGED << datastore, rdb_path, writer, readers, clock, cmd, out,
                    nrecv, nrep, obs, prev, lastw, lastgot, sole, lin >>
    /\ UNCHANGED << argv, wire, script, log >>

ExecEcho(c) ==
    /\ pc[c] = "exec" /\ cmd[c].op = "ECHO"
    /\ wq' = [wq EXCEPT ![c] = BulkChunks(cmd[c].msg)]
    /\ pc' = [pc EXCEPT ![c] = "write"]
    /\ din' = [din EXCEPT ![c] = None]
    /\ UNCHANGED << datastore, rdb_path, writer, readers, clock, cmd, out,
                    nrecv, nrep, obs, prev, lastw, lastgot, sole, lin >>
    /\ UNCHANGED << argv, wire, script, log >>

ExecInvalid(c) ==
    /\ pc[c] = "exec" /\ cmd[c].op = "INVALID"
    /\ wq' = [wq EXCEPT ![c] = ErrorChunks(cmd[c].msg)]
    /\ pc' = [pc EXCEPT ![c] = "write"]
    /\ din' = [din EXCEPT ![c] = None]
    /\ UNCHANGED << datastore, rdb_path, writer, readers, clock, cmd, out,
                    nrecv, nrep, obs, prev, lastw, lastgot, sole, lin >>
    /\ UNCHANGED << argv, wire, script, log >>

(***************************************************************************)
(* Command::GET: state.read().await, ds.get(&key), the expiry test; for an *)
(* expired entry drop(state_ro).  The read guard is otherwise held until   *)
(* handle_command returns.                                                 *)
(***************************************************************************)
GetRead(c) ==
    /\ pc[c] = "exec" /\ cmd[c].op = "GET"
    /\ writer = 0
    /\ LET key == cmd[c].key
           found == Lookup(datastore, key)
           outcome == GetOutcome(found, clock)
       IN  /\ readers' = IF outcome = "expired" THEN readers ELSE readers \cup {c}
           /\ pc' = [pc EXCEPT ![c] = IF outcome = "expired" THEN "upgrade" ELSE "write"]
           /\ wq' = [wq EXCEPT ![c] = GetChunks(found, clock)]
           /\ obs' = [obs EXCEPT ![c] =
                        Some([found |-> IF found = None THEN None
                                        ELSE Some(found[1].value),
                              inpast |-> found # None /\ InPast(found[1].expiry, clock),
                              after0 |-> prev[c] # None /\ prev[c][1].clean
                                           /\ prev[c][1].later,
                              lastset |-> lastw[key].set,
                              elapsed |-> InPast(lastw[key].oldexp, clock),
                              lastgot |-> lastgot[key],
                              mine |-> sole[key].who = c,
                              myset |-> sole[key].value])]
           /\ lastgot' = IF found # None /\ ~InPast(found[1].expiry, clock)
                         THEN [lastgot EXCEPT ![key] = Some(found[1].value)]
                         ELSE lastgot
           /\ prev' = [Touched(c, key) EXCEPT ![c] = None]
    /\ din' = [din EXCEPT ![c] = None]
    /\ UNCHANGED << datastore, rdb_path, writer, clock, cmd, out, nrecv, nrep,
                    lastw, sole, lin >>
    /\ UNCHANGED << argv, wire, script, log >>

(***************************************************************************)
(* Command::GET, expired entry: state.write().await and ds.remove(&key).   *)
(***************************************************************************)
GetUpgrade(c) ==
    /\ pc[c] = "upgrade"
    /\ writer = 0 /\ readers = {}
    /\ LET key == cmd[c].key IN
        /\ datastore' = Remove(datastore, key)
        /\ lastw' = IF key \in DOMAIN datastore
                    THEN [lastw EXCEPT ![key] = NoWrite] ELSE lastw
        /\ prev' = Touched(c, key)
    /\ writer' = c
    /\ pc' = [pc EXCEPT ![c] = "write"]
    /\ UNCHANGED << rdb_path, readers, clock, cmd, wq, out, nrecv, nrep, din, obs,
                    lastgot, sole, lin >>
    /\ UNCHANGED << argv, wire, script, log >>

(***************************************************************************)
(* Command::SET and Command::SETPX: state.write().await and ds.insert.     *)
(***************************************************************************)
SetInsert(c) ==
    /\ pc[c] = "exec" /\ cmd[c].op = "SET"
    /\ writer = 0 /\ readers = {}
    /\ LET key == cmd[c].key
           old == Lookup(datastore, key)
       IN  /\ datastore' = Insert(datastore, key, SetValue(cmd[c].value))
           /\ lastw' = [lastw EXCEPT ![key] =
                          [set |-> Some(cmd[c].value),
                           oldexp |-> IF old # None /\ ~InPast(old[1].expiry, clock)
                                      THEN old[1].expiry ELSE None]]
           /\ lastgot' = [lastgot EXCEPT ![key] = None]
           /\ prev' = [Touched(c, key) EXCEPT ![c] = None]
    /\ writer' = c
    /\ wq' = [wq EXCEPT ![c] = << Ok >>]
    /\ pc' = [pc EXCEPT ![c] = "write"]
    /\ din' = [din EXCEPT ![c] = None]
    /\ UNCHANGED << rdb_path, readers, clock, cmd, out, nrecv, nrep, obs, sole, lin >>
    /\ UNCHANGED << argv, wire, script, log >>

SetPxInsert(c) ==
    /\ pc[c] = "exec" /\ cmd[c].op = "SETPX"
    /\ writer = 0 /\ readers = {}
    /\ LET key == cmd[c].key IN
        /\ datastore' = Insert(datastore, key,
                               SetPxValue(cmd[c].value, clock, cmd[c].expiry))
        /\ lastw' = [lastw EXCEPT ![key] = NoWrite]
        /\ lastgot' = [lastgot EXCEPT ![key] = None]
        /\ prev' = [Touched(c, key) EXCEPT ![c] =
                      IF cmd[c].expiry = 0
                      THEN Some([key |-> key, later |-> FALSE, clean |-> TRUE])
                      ELSE None]
    /\ writer' = c
    /\ wq' = [wq EXCEPT ![c] = << Ok >>]
    /\ pc' = [pc EXCEPT ![c] = "write"]
    /\ din' = [din EXCEPT ![c] = None]
    /\ UNCHANGED << rdb_path, readers, clock, cmd, out, nrecv, nrep, obs, sole, lin >>
    /\ UNCHANGED << argv, wire, script, log >>

(***************************************************************************)
(* Command::CONFIGGET: state.read().await, then rdb_path.as_ref().unwrap() *)
(* panics when no path was configured, as do parent().unwrap() and         *)
(* file_name().unwrap() on a path without one (the guard is dropped on     *)
(* unwind).                                                                *)
(***************************************************************************)
ConfigValue(path, key) ==
    IF key = s_dir THEN Parent(path)
    ELSE IF key = s_dbfilename THEN FileName(path)
    ELSE Some(<< >>)

ConfigReply(path, key) ==
    IF key = s_dir THEN ConfigChunks(s_dir, ConfigValue(path, key)[1])
    ELSE IF key = s_dbfilename THEN ConfigChunks(s_dbfilename, ConfigValue(path, key)[1])
    ELSE << NullBulk >>

ConfigGet(c) ==
    /\ pc[c] = "exec" /\ cmd[c].op = "CONFIGGET"
    /\ writer = 0
    /\ IF rdb_path = None \/ ConfigValue(rdb_path[1], cmd[c].key) = None
       THEN /\ pc' = [pc EXCEPT ![c] = "dead"]
            /\ UNCHANGED << readers, wq >>
       ELSE /\ readers' = readers \cup {c}
            /\ wq' = [wq EXCEPT ![c] = ConfigReply(rdb_path[1], cmd[c].key)]
            /\ pc' = [pc EXCEPT ![c] = "write"]
    /\ din' = [din EXCEPT ![c] = None]
    /\ UNCHANGED << datastore, rdb_path, writer, clock, cmd, out, nrecv, nrep,
                    obs, prev, lastw, lastgot, sole, lin >>
    /\ UNCHANGED << argv, wire, script, log >>

(***************************************************************************)
(* One stream.write_all(..).await.  After the last one handle_command      *)
(* returns, which drops the guard it holds, and the loop reads on.         *)
(***************************************************************************)
WriteChunk(c, track) ==
    /\ pc[c] = "write"
    /\ wq[c] # << >>
    /\ wq' = [wq EXCEPT ![c] = Tail(@)]
    /\ IF Len(wq[c]) = 1
       THEN /\ pc' = [pc EXCEPT ![c] = "read"]
            /\ nrep' = [nrep EXCEPT ![c] = @ + 1]
            /\ cmd' = [cmd EXCEPT ![c] = NoCommand]
            /\ out' = [out EXCEPT ![c] = << >>]
            /\ obs' = [obs EXCEPT ![c] = None]
            /\ sole' = IF cmd[c].op = "SET" /\ sole[cmd[c].key].who = c
                       THEN [sole EXCEPT ![cmd[c].key].value = Some(cmd[c].value)]
                       ELSE sole
            /\ lin' = IF track THEN LinRespond(c, out[c] \o Head(wq[c])) ELSE lin
            /\ Release(c)
       ELSE /\ out' = [out EXCEPT ![c] = @ \o Head(wq[c])]
            /\ UNCHANGED << pc, nrep, cmd, obs, sole, lin, writer, readers >>
    /\ UNCHANGED << datastore, rdb_path, clock, nrecv, din, prev, lastw, lastgot >>
    /\ UNCHANGED << argv, wire, script, log >>

(***************************************************************************)
(* A read or a write of the stream fails (the `?` after read_line,         *)
(* read_exact and write_all): handle_connection returns the error and      *)
(* the task ends, dropping the guard it holds.                             *)
(***************************************************************************)
IoError(c, track) ==
    /\ pc[c] \in {"read", "write"}
    /\ pc' = [pc EXCEPT ![c] = "dead"]
    /\ cmd' = [cmd EXCEPT ![c] = NoCommand]
    /\ wq' = [wq EXCEPT ![c] = << >>]
    /\ out' = [out EXCEPT ![c] = << >>]
    /\ obs' = [obs EXCEPT ![c] = None]
    /\ prev' = [prev EXCEPT ![c] = None]
    /\ lin' = IF track THEN LinAbandon(c) ELSE lin
    /\ Release(c)
    /\ UNCHANGED << datastore, rdb_path, clock, nrecv, nrep, din, lastw, lastgot,
                    sole >>
    /\ log' = [log EXCEPT ![c] = Some(ErrIo)]
    /\ UNCHANGED << argv, wire, script >>

(***************************************************************************)
(* The monotonic clock advances.                                           *)
(***************************************************************************)
Tick(track) ==
    /\ clock < MaxClock
    /\ clock' = clock + 1
    /\ prev' = [c \in Conns |->
                  IF prev[c] = None THEN None
                  ELSE Some([prev[c][1] EXCEPT !.later = TRUE])]
    /\ lin' = IF track THEN LinClosure(lin, cmd, clock + 1, Cardinality(Conns))
               ELSE lin
    /\ UNCHANGED << datastore, rdb_path, writer, readers, pc, cmd, wq, out,
                    nrecv, nrep, din, obs, lastw, lastgot, sole >>
    /\ UNCHANGED << argv, wire, script, log >>

(***************************************************************************)
(* Spec: two connections that issue GET, SET and SET PX on one key.        *)
(***************************************************************************)
Next ==
    \/ \E c \in Conns : Accept(c)
    \/ \E c \in Conns : \E d \in StoreInputs : Recv(c, d, FALSE)
    \/ \E c \in Conns : GetRead(c)
    \/ \E c \in Conns : GetUpgrade(c)
    \/ \E c \in Conns : SetInsert(c)
    \/ \E c \in Conns : SetPxInsert(c)
    \/ \E c \in Conns : WriteChunk(c, FALSE)
    \/ \E c \in Conns : IoError(c, FALSE)
    \/ Tick(FALSE)

Spec == Init /\ [][Next]_vars

(***************************************************************************)
(* SpecAtomic: Spec with fewer requests, and with the outcomes of the      *)
(* atomic executions recorded in lin.                                      *)
(***************************************************************************)
NextAtomic ==
    \/ \E c \in Conns : Accept(c)
    \/ \E c \in Conns : \E d \in AtomicInputs : Recv(c, d, TRUE)
    \/ \E c \in Conns : GetRead(c)
    \/ \E c \in Conns : GetUpgrade(c)
    \/ \E c \in Conns : SetInsert(c)
    \/ \E c \in Conns : SetPxInsert(c)
    \/ \E c \in Conns : WriteChunk(c, TRUE)
    \/ \E c \in Conns : IoError(c, TRUE)
    \/ Tick(TRUE)

SpecAtomic == Init /\ [][NextAtomic]_vars

(***************************************************************************)
(* SpecSeq: one connection that is sent every kind of request, well formed *)
(* or not.                                                                 *)
(***************************************************************************)
NextSeq ==
    \/ \E c \in SeqConns : Accept(c)
    \/ \E c \in SeqConns : \E d \in ParseInputs : Recv(c, d, FALSE)
    \/ \E c \in SeqConns : ExecPing(c)
    \/ \E c \in SeqConns : ExecEcho(c)
    \/ \E c \in SeqConns : ExecInvalid(c)
    \/ \E c \in SeqConns : GetRead(c)
    \/ \E c \in SeqConns : GetUpgrade(c)
    \/ \E c \in SeqConns : SetInsert(c)
    \/ \E c \in SeqConns : SetPxInsert(c)
    \/ \E c \in SeqConns : ConfigGet(c)
    \/ \E c \in SeqConns : WriteChunk(c, FALSE)
    \/ \E c \in SeqConns : IoError(c, FALSE)
    \/ Tick(FALSE)

SpecSeq == Init /\ [][NextSeq]_vars

(***************************************************************************)
(* SpecDisjoint: two connections, each issuing SET and GET on its own key. *)
(***************************************************************************)
NextDisjoint ==
    \/ \E c \in Conns : Accept(c)
    \/ \E c \in Conns : \E d \in DisjointInputs(c) : Recv(c, d, FALSE)
    \/ \E c \in Conns : GetRead(c)
    \/ \E c \in Conns : SetInsert(c)
    \/ \E c \in Conns : WriteChunk(c, FALSE)
    \/ \E c \in Conns : IoError(c, FALSE)
    \/ Tick(FALSE)

SpecDisjoint == Init /\ [][NextDisjoint]_vars

(***************************************************************************)
(* SpecWire: one connection, from the bytes that its client sends.         *)
(***************************************************************************)
NextWire ==
    \/ \E c \in SeqConns : AcceptWire(c, Scripts)
    \/ \E c \in SeqConns : RecvWire(c)
    \/ \E c \in SeqConns : ExecPing(c)
    \/ \E c \in SeqConns : ExecEcho(c)
    \/ \E c \in SeqConns : ExecInvalid(c)
    \/ \E c \in SeqConns : GetRead(c)
    \/ \E c \in SeqConns : SetInsert(c)
    \/ \E c \in SeqConns : WriteChunk(c, FALSE)
    \/ \E c \in SeqConns : IoError(c, FALSE)

SpecWire == Init /\ [][NextWire]_vars

(***************************************************************************)
(* SpecFail: two connections, one or both of which fail.                   *)
(***************************************************************************)
NextFail ==
    \/ \E c \in Conns : AcceptWire(c, FailScripts)
    \/ \E c \in Conns : RecvWire(c)
    \/ \E c \in Conns : GetRead(c)
    \/ \E c \in Conns : SetInsert(c)
    \/ \E c \in Conns : ConfigGet(c)
    \/ \E c \in Conns : WriteChunk(c, FALSE)
    \/ \E c \in Conns : IoError(c, FALSE)

SpecFail == Init /\ [][NextFail]_vars

(***************************************************************************)
(* SpecStall: SpecAtomic's requests under fair scheduling.  The runtime    *)
(* runs every task that can take a step that does not wait for its client; *)
(* the client of connection Served reads what it is sent, the other client *)
(* may stop reading, so that a write_all to it never completes.            *)
(***************************************************************************)
Served == 1

NextStall ==
    \/ \E c \in Conns : Accept(c)
    \/ \E c \in Conns : \E d \in AtomicInputs : Recv(c, d, FALSE)
    \/ \E c \in Conns : GetRead(c)
    \/ \E c \in Conns : GetUpgrade(c)
    \/ \E c \in Conns : SetInsert(c)
    \/ \E c \in Conns : SetPxInsert(c)
    \/ \E c \in Conns : WriteChunk(c, FALSE)
    \/ \E c \in Conns : IoError(c, FALSE)
    \/ Tick(FALSE)

FairStall ==
    /\ \A c \in Conns : WF_vars(Accept(c))
    /\ \A c \in Conns : WF_vars(GetRead(c))
    /\ \A c \in Conns : WF_vars(GetUpgrade(c))
    /\ \A c \in Conns : WF_vars(SetInsert(c))
    /\ \A c \in Conns : WF_vars(SetPxInsert(c))
    /\ WF_vars(WriteChunk(Served, FALSE))

SpecStall == Init /\ [][NextStall]_vars /\ FairStall

(***************************************************************************)
(* SpecConfig: one connection that asks for the configuration, for every   *)
(* command line.                                                           *)
(***************************************************************************)
InitConfig == InitWith(Startups)

NextConfig ==
    \/ \E c \in SeqConns : Accept(c)
    \/ \E c \in SeqConns : \E d \in ConfigInputs : Recv(c, d, FALSE)
    \/ \E c \in SeqConns : ExecPing(c)
    \/ \E c \in SeqConns : ConfigGet(c)
    \/ \E c \in SeqConns : WriteChunk(c, FALSE)
    \/ \E c \in SeqConns : IoError(c, FALSE)
    \/ Tick(FALSE)

SpecConfig == InitConfig /\ [][NextConfig]_vars

(***************************************************************************)
(* Properties.                                                             *)
(***************************************************************************)
Whole(c) == out[c] \o Flatten(wq[c])
Bulk(b) == Flatten(BulkChunks(b))
InGet(c) == pc[c] \in {"upgrade", "write"} /\ cmd[c].op = "GET" /\ obs[c] # None

(* C1: the lazy-expiry deletion of GET never removes an entry that, at the *)
(* moment of removal, has no expiry or an expiry that is not in the past.  *)
C1_RemovesOnlyExpired ==
    [][\A k \in DOMAIN datastore :
          k \notin DOMAIN datastore' => InPast(datastore[k].expiry, clock)]_vars

(* C2: the replies and the store of every concurrent execution are those   *)
(* of an execution in which each command runs in one atomic step between   *)
(* its arrival and its reply: some such execution gives every reply seen   *)
(* so far, and, once no command is in progress, the store.                 *)
Quiescent == \A c \in Conns : pc[c] \in {"unaccepted", "read", "dead"}
C2_Atomic ==
    /\ lin # {}
    /\ Quiescent => \E x \in lin : x.st = datastore

(* C3: a GET k that directly follows, on the same connection, a SET k v    *)
(* PX 0 answered OK, with no access to k by another connection in between  *)
(* and a clock that has advanced since the SET, is answered null.          *)
C3_ZeroTtlExpired ==
    \A c \in Conns : InGet(c) /\ obs[c][1].after0 => Whole(c) = NullBulk

C3_Witness ==
    \E c \in Conns :
        /\ InGet(c) /\ obs[c][1].after0
        /\ pc[c] = "write" /\ Whole(c) = NullBulk
        /\ cmd[c].key \notin DOMAIN datastore

(* C4: GET k answers the bulk string of the stored value exactly when k    *)
(* has an entry whose expiry is absent or not in the past at the read, and *)
(* the null bulk string exactly when k has no entry or one whose expiry is *)
(* in the past.                                                            *)
C4_GetReply ==
    \A c \in Conns :
        InGet(c) =>
            IF obs[c][1].found # None /\ ~obs[c][1].inpast
            THEN Whole(c) = Bulk(obs[c][1].found[1])
            ELSE Whole(c) = NullBulk

C4_Witness ==
    \E c \in Conns :
        /\ InGet(c) /\ c \in readers /\ out[c] # << >>
        /\ cmd[c].key \in DOMAIN datastore
        /\ datastore[cmd[c].key].expiry # None
        /\ Whole(c) = Bulk(datastore[cmd[c].key].value)

(* C5: once a plain SET k v is the last change of k, every GET k answers   *)
(* v, however far the clock has advanced past an expiry the SET replaced.  *)
C5_SetClearsExpiry ==
    \A c \in Conns :
        InGet(c) /\ obs[c][1].lastset # None =>
            Whole(c) = Bulk(obs[c][1].lastset[1])

C5_Witness ==
    \E c \in Conns :
        /\ InGet(c) /\ obs[c][1].lastset # None /\ obs[c][1].elapsed
        /\ out[c] # << >>
        /\ Whole(c) = Bulk(obs[c][1].lastset[1])

(* C6: a GET k that finds an unexpired entry answers what the last GET k   *)
(* that found an unexpired entry answered, when no SET or SET PX on k was  *)
(* executed between the two.                                               *)
C6_GetIdempotent ==
    \A c \in Conns :
        InGet(c) /\ obs[c][1].found # None /\ ~obs[c][1].inpast
                 /\ obs[c][1].lastgot # None =>
            Whole(c) = Bulk(obs[c][1].lastgot[1])

C6_Witness ==
    \E c \in Conns :
        /\ InGet(c) /\ obs[c][1].found # None /\ ~obs[c][1].inpast
        /\ obs[c][1].lastgot # None /\ out[c] # << >>
        /\ Whole(c) = Bulk(obs[c][1].lastgot[1])

(***************************************************************************)
(* The validation rules as the specification states them (section 4.2).    *)
(***************************************************************************)
RecognizedNames == {s_ping, s_echo, s_get, s_set, s_config}
NameOf(d) == ToLowercase(d.v[1].v)
Recognized(d) ==
    /\ d.t = "Array" /\ Len(d.v) > 0
    /\ d.v[1].t = "BulkString" /\ NameOf(d) \in RecognizedNames
StatedArity(name) ==
    IF name = s_ping THEN {1}
    ELSE IF name = s_echo \/ name = s_get THEN {2}
    ELSE IF name = s_set THEN {3, 5}
    ELSE {3}
RightArity(d) == Len(d.v) \in StatedArity(NameOf(d))
IsUnsigned(b) == Len(b) > 0 /\ \A i \in DOMAIN b : IsDigit(b[i])
WellFormed(d) ==
    LET a == d.v IN
    /\ RightArity(d)
    /\ \A i \in 2 .. Len(a) : a[i].t = "BulkString"
    /\ NameOf(d) = s_set /\ Len(a) = 5 => a[4].v = s_px /\ IsUnsigned(a[5].v)
    /\ NameOf(d) = s_config => a[2].v = s_get
IsSimpleError(b) ==
    /\ Len(b) >= 3 /\ b[1] = 45
    /\ SubSeq(b, Len(b) - 1, Len(b)) = CRLF
    /\ \A i \in 1 .. Len(b) - 2 : b[i] \notin {13, 10}

(* C7: a request that names a recognized command and breaks a validation   *)
(* rule never ends the connection's task in the parser; when the number of *)
(* its elements is a stated one it is parsed to Invalid; and every Invalid *)
(* command is answered with one SimpleError.                               *)
C7_ValidationNeverDrops ==
    \A c \in SeqConns :
        /\ din[c] # None /\ Recognized(din[c][1]) /\ ~WellFormed(din[c][1]) =>
              /\ cmd[c] # Panic /\ pc[c] # "dead"
              /\ RightArity(din[c][1]) => cmd[c].op = "INVALID"
        /\ pc[c] = "write" /\ cmd[c].op = "INVALID" => IsSimpleError(Whole(c))

(* C8: a request that names a recognized command with a number of elements *)
(* other than its stated arity is parsed to Invalid.                       *)
C8_ArityChecked ==
    \A c \in SeqConns :
        din[c] # None /\ Recognized(din[c][1])
                      /\ ~RightArity(din[c][1]) =>
            cmd[c].op = "INVALID"

(* C9: on a connection the k-th reply answers the k-th command: a command  *)
(* is decoded only when every earlier one has its complete reply, and what *)
(* is written meanwhile is the reply to the command in progress.           *)
RepliesTo(command) ==
    IF command.op = "PING" THEN {Pong}
    ELSE IF command.op = "ECHO" THEN {Bulk(command.msg)}
    ELSE IF command.op = "GET" THEN {NullBulk} \cup {Bulk(k) : k \in Keys \cup Vals}
    ELSE IF command.op \in {"SET", "SETPX"} THEN {Ok}
    ELSE IF command.op = "INVALID" THEN {Flatten(ErrorChunks(command.msg))}
    ELSE IF command.op = "CONFIGGET" /\ rdb_path # None
         THEN {Flatten(ConfigReply(rdb_path[1], command.key))}
    ELSE {}

C9_InOrder ==
    \A c \in Conns :
        /\ nrep[c] <= nrecv[c] /\ nrecv[c] <= nrep[c] + 1
        /\ pc[c] \in {"unaccepted", "read"} => nrecv[c] = nrep[c] /\ Whole(c) = << >>
        /\ pc[c] \in {"exec", "upgrade", "write"} => nrecv[c] = nrep[c] + 1
        /\ pc[c] = "write" => Whole(c) \in RepliesTo(cmd[c])

C9_Witness ==
    \E c \in Conns :
        /\ nrecv[c] = 2 /\ nrep[c] = 1 /\ pc[c] = "write"
        /\ out[c] # << >> /\ wq[c] # << >>

(* C10: connections that issue SET and GET on keys of their own: a GET k   *)
(* answers the value of the connection's last SET k answered OK (null      *)
(* before the first), and a connection's stream carries nothing but the    *)
(* reply to its own command in progress.                                   *)
C10_OwnWrites ==
    \A c \in Conns :
        /\ InGet(c) /\ obs[c][1].mine =>
              Whole(c) = IF obs[c][1].myset = None THEN NullBulk
                         ELSE Bulk(obs[c][1].myset[1])
        /\ pc[c] = "write" => Whole(c) \in RepliesTo(cmd[c])
        /\ pc[c] # "write" => out[c] = << >>

C10_Witness ==
    \E c \in Conns : \E c2 \in Conns \ {c} :
        /\ InGet(c) /\ obs[c][1].mine /\ obs[c][1].myset # None
        /\ out[c] # << >>
        /\ OwnKey(c2) \in DOMAIN datastore
        /\ datastore[OwnKey(c2)].value # obs[c][1].myset[1]
        /\ pc[c2] = "write"

(* C18: the key-to-entry map changes only in a step of a connection that   *)
(* runs SET or SET PX, or that runs a GET which read an entry whose expiry *)
(* was in the past; PING, ECHO, CONFIG GET, an Invalid command, a GET that *)
(* read no entry or an unexpired one, decoding and failures leave it as it *)
(* is; and no step changes rdb_path.                                       *)
MayWrite(c) ==
    \/ cmd[c].op \in {"SET", "SETPX"}
    \/ cmd[c].op = "GET" /\ obs[c] # None /\ obs[c][1].inpast
C18_Frame ==
    [][/\ rdb_path' = rdb_path
       /\ datastore' # datastore =>
              \E c \in Conns : pc'[c] # pc[c] /\ MayWrite(c)]_vars

C18_Witness ==
    \E c \in Conns :
        /\ pc[c] = "write" /\ datastore # EmptyStore
        /\ \/ cmd[c].op \in {"PING", "ECHO", "CONFIGGET", "INVALID"}
           \/ cmd[c].op = "GET" /\ obs[c] # None /\ ~obs[c][1].inpast
        /\ nrep[c] = 1

(* C19: a handler holds at most one guard of the store lock; it holds none *)
(* while it waits for the next command, while it waits for the lock (a GET *)
(* that asks for the write guard has dropped its read guard) and after it  *)
(* has ended; so whoever holds a guard is writing its reply, not waiting   *)
(* for the lock, and handlers cannot deadlock on the lock alone.           *)
Holds(c) == writer = c \/ c \in readers
WaitsForLock(c) ==
    \/ pc[c] = "upgrade"
    \/ pc[c] = "exec" /\ cmd[c].op \in {"GET", "SET", "SETPX", "CONFIGGET"}
C19_LockDiscipline ==
    /\ writer # 0 => readers = {}
    /\ \A c \in Conns :
          /\ ~(writer = c /\ c \in readers)
          /\ pc[c] \in {"unaccepted", "read", "dead"} => ~Holds(c)
          /\ WaitsForLock(c) => ~Holds(c)
          /\ Holds(c) => pc[c] = "write" /\ wq[c] # << >>

C19_Witness ==
    \E c \in Conns : \E h \in Conns \ {c} :
        /\ pc[c] = "upgrade" /\ ~Holds(c)
        /\ Holds(h) /\ pc[h] = "write"

(* C20: under fair scheduling a GET, SET or SET PX of the connection whose *)
(* client reads its replies is eventually answered (or the connection      *)
(* fails), whether or not the other client reads.                          *)
C20_Progress ==
    (pc[Served] = "exec") ~> (pc[Served] \in {"read", "dead"})

(* C15: CONFIG GET dbfilename is answered with the array [dbfilename,      *)
(* name] when --dbfilename name was given, with or without --dir, and with *)
(* [dbfilename, dump.rdb] when only --dir was given; in these startups     *)
(* CONFIG GET of another name than dir and dbfilename is answered with the *)
(* null bulk string.                                                       *)
PairReply(a, b) == << 42, 50, 13, 10 >> \o Bulk(a) \o Bulk(b)
ConfigRan(c) == cmd[c].op = "CONFIGGET" /\ pc[c] \in {"write", "dead"}
C15_DbFilename ==
    \A c \in SeqConns :
        ConfigRan(c) =>
            LET a == ParseArgs(argv) IN
            /\ cmd[c].key = s_dbfilename /\ a.file # None =>
                  pc[c] = "write" /\ Whole(c) = PairReply(s_dbfilename, a.file[1])
            /\ cmd[c].key = s_dbfilename /\ a.file = None /\ a.dir # None =>
                  pc[c] = "write" /\ Whole(c) = PairReply(s_dbfilename, s_dump_rdb)
            /\ cmd[c].key \notin {s_dir, s_dbfilename}
                  /\ (a.file # None \/ a.dir # None) =>
                  pc[c] = "write" /\ Whole(c) = NullBulk

(* The connection's task ended with an error of deserialize_data. *)
DiedDecoding(c) == pc[c] = "dead" /\ log[c] \notin {None, Some(ErrIo)}

(* C12: the store holds what the complete commands of the connection have  *)
(* put there and nothing else: a command that is cut short, at whatever    *)
(* byte, or that fails to decode, leaves the store as the commands before  *)
(* it left it.                                                             *)
RECURSIVE StoreAfter(_)
StoreAfter(ds) ==
    IF Len(ds) = 0 THEN EmptyStore
    ELSE LET st == StoreAfter(SubSeq(ds, 1, Len(ds) - 1))
             cm == CommandFrom(ds[Len(ds)])
         IN  IF cm.op = "SET" THEN Insert(st, cm.key, SetValue(cm.value)) ELSE st
Complete(c, j) ==
    SubSeq(script[c].cmds, 1, IF j < Len(script[c].cmds) THEN j ELSE Len(script[c].cmds))
C12_NoPartialCommand ==
    \A c \in SeqConns :
        /\ datastore \in {StoreAfter(Complete(c, nrep[c])),
                           StoreAfter(Complete(c, nrecv[c]))}
        /\ DiedDecoding(c) => datastore = StoreAfter(Complete(c, nrep[c]))

C12_Witness ==
    \E c \in SeqConns :
        /\ DiedDecoding(c) /\ datastore # EmptyStore
        /\ wire[c] = script[c].tail /\ Len(wire[c]) >= 20
        /\ log[c] = Some(ErrEof)

(* C13: a connection that ends because its client closed it after complete *)
(* exchanges, with no byte of a next command sent, prints no error.        *)
CleanEof(c) ==
    /\ pc[c] = "dead" /\ cmd[c] = NoCommand /\ log[c] # Some(ErrIo)
    /\ wire[c] = << >> /\ nrep[c] = nrecv[c] /\ nrep[c] >= 1
    /\ script[c].tail = << >> /\ nrep[c] = Len(script[c].cmds)
C13_SilentClose == \A c \in SeqConns : CleanEof(c) => log[c] = None

(* C14: deserialize_data fails with "Client disconnected" exactly when the *)
(* stream is at its end where the first line of a top-level command is     *)
(* expected; an empty line, an unknown prefix and an end of stream inside  *)
(* a value fail with another error.                                        *)
C14_Disconnected ==
    \A c \in SeqConns :
        DiedDecoding(c) => (log[c] = Some(ErrDisconnected) <=> wire[c] = << >>)

(* C16: the bulk string written in reply to ECHO p, or to GET of a key     *)
(* that holds p, decodes under deserialize_data to BulkString(p) and       *)
(* leaves exactly what follows it on the stream.                           *)
Followers == {<< >>, CRLF, << 43, 79, 75, 13, 10 >>}
BulkReplyOf(c) ==
    IF cmd[c].op = "ECHO" THEN Some(cmd[c].msg)
    ELSE IF cmd[c].op = "GET" /\ obs[c] # None /\ ~obs[c][1].inpast
    THEN obs[c][1].found
    ELSE None
C16_BulkRoundTrip ==
    \A c \in SeqConns :
        pc[c] = "write" /\ BulkReplyOf(c) # None =>
            \A x \in Followers :
                Deserialize(Whole(c) \o x) = Decoded(BulkString(BulkReplyOf(c)[1]), x)

C16_Witness ==
    \E c \in SeqConns :
        /\ pc[c] = "write" /\ cmd[c].op = "GET" /\ out[c] # << >>
        /\ BulkReplyOf(c) = Some(<< 10, 13 >>)
        /\ Deserialize(Whole(c)) = Decoded(BulkString(<< 10, 13 >>), << >>)

(* C17: commands sent back to back are decoded one for one: the k-th       *)
(* command decoded is the k-th sent, nested arrays included, what is left  *)
(* unread is what was sent after it, and no decoding fails before all of   *)
(* them have been decoded.                                                 *)
C17_ExactConsumption ==
    \A c \in SeqConns :
        LET sent == script[c].cmds
            n == Len(sent)
        IN  /\ din[c] # None /\ nrecv[c] <= n => din[c][1] = sent[nrecv[c]]
            /\ nrecv[c] <= n =>
                  wire[c] = EncodeAll(SubSeq(sent, nrecv[c] + 1, n)) \o script[c].tail
            /\ DiedDecoding(c) => nrecv[c] >= n

C17_Witness ==
    \E c \in SeqConns :
        /\ nrecv[c] = 2 /\ din[c] = Some(ReqNested)
        /\ script[c].cmds[1] # ReqNested
        /\ wire[c] = script[c].tail /\ wire[c] # << >>

(* C11: when a connection's task ends (error of the decoder, failure of    *)
(* the stream, panic on an unknown command name or on CONFIG GET without a *)
(* configured path) it holds no guard of the store lock afterwards, the    *)
(* step changes neither the store nor anything of another connection, the  *)
(* accept loop can still accept, and a command of another connection can   *)
(* still run and be answered.                                              *)
OthersIdle(d) == \A h \in Conns \ {d} : pc[h] \in {"unaccepted", "read", "dead"}
CanRun(d) == ENABLED (GetRead(d) \/ SetInsert(d) \/ ConfigGet(d))
C11_Isolation ==
    /\ [](\A c \in Conns : pc[c] = "dead" => ~Holds(c))
    /\ [](\A c \in Conns :
            pc[c] = "unaccepted" /\ (\A c2 \in Conns : c2 < c => pc[c2] # "unaccepted")
                => ENABLED AcceptWire(c, FailScripts))
    /\ [](\A d \in Conns :
            /\ pc[d] = "exec" /\ OthersIdle(d) => CanRun(d)
            /\ pc[d] = "write" => ENABLED WriteChunk(d, FALSE))
    /\ [][\A c \in Conns :
            pc[c] # "dead" /\ pc'[c] = "dead" =>
                /\ datastore' = datastore
                /\ \A d \in Conns \ {c} :
                      /\ pc'[d] = pc[d] /\ cmd'[d] = cmd[d] /\ wq'[d] = wq[d]
                      /\ out'[d] = out[d] /\ wire'[d] = wire[d]]_vars

C11_Witness ==
    \E c \in Conns : \E d \in Conns \ {c} :
        /\ pc[c] = "dead" /\ cmd[c] = Panic /\ nrep[c] = 1
        /\ pc[d] = "write" /\ cmd[d].op = "GET" /\ out[d] # << >>
        /\ obs[d] # None /\ obs[d][1].found = Some(<< 119 >>)

====
